---- MODULE Spec2Model ----
(***************************************************************************)
(* Access-control core of the complaint box server: the account store,     *)
(* the complaint store, the bearer tokens, the two gates of                 *)
(* server/middleware/auth.js and the routes of server/server.js.            *)
(*                                                                          *)
(* A handler is split at the store calls it awaits: between two awaited     *)
(* store calls of one request, steps of other requests may run.  A request  *)
(* that has passed its first store call and still has one to make is kept   *)
(* in `inflight`.                                                           *)
(*                                                                          *)
(* JavaScript strings whose characters matter (phone number, password,      *)
(* e-mail) are sequences of one-character strings; an absent or empty one   *)
(* is the empty sequence (both are falsy).  The other strings are TLA+      *)
(* strings, and Undefined stands for a field the request does not carry.    *)
(***************************************************************************)
EXTENDS Integers, Sequences, FiniteSets, TLC

VARIABLES
    users,            \* the User collection: a set of account documents
    complaints,       \* the Complaint collection: a set of complaint documents
    issued,           \* the tokens the server has signed so far (held by clients)
    inflight,         \* requests suspended between two awaited store calls
    now,              \* the clock, in hours
    nextUserId,       \* the next fresh ObjectId of the User collection
    nextComplaintId,  \* the next fresh ObjectId of the Complaint collection
    last              \* the step taken last: route, phase, request, response

vars == <<users, complaints, issued, inflight, now, nextUserId, nextComplaintId, last>>

----------------------------------------------------------------------------
(* Bounds of the model *)

MaxUsers == 2
MaxComplaints == 2
MaxTokens == 2
MaxInflight == 2
\* the requests in progress at a time where the clients take turns
Sequential == 1
\* the complaints created under the specification of the gates
GateComplaints == 1

(* Program constants *)

SaltRounds == 10
PhoneDigits == 10
MinPasswordLength == 6
EmployeeTokenHours == 168
AdminTokenHours == 24

Undefined == "<undefined>"
NoStr == <<>>

ADMIN_USERNAME == <<"r", "o", "o", "t">>
ADMIN_PASSWORD == <<"a", "d", "m", "i", "n", "p", "w">>

----------------------------------------------------------------------------
(* Strings *)

Digits == {"0", "1", "2", "3", "4", "5", "6", "7", "8", "9"}

Falsy(s) == Len(s) = 0

\* the pattern without its anchors, [0-9]{10}: ten digits in a row anywhere
phoneRegexWithoutAnchors(s) ==
    \E i \in 1..Len(s) : /\ i + PhoneDigits - 1 <= Len(s)
                         /\ \A j \in i..(i + PhoneDigits - 1) : s[j] \in Digits

phoneRegex(s) == /\ Len(s) = PhoneDigits
                 /\ \A i \in 1..Len(s) : s[i] \in Digits

generatedEmailOf(employeeNumber) == employeeNumber \o <<"@complaintbox.local">>

generatedEmail(body) ==
    IF Falsy(body.email) THEN generatedEmailOf(body.employeeNumber) ELSE body.email

----------------------------------------------------------------------------
(* Password Verifier: bcrypt.hash(password, 10) and bcrypt.compare *)

bcryptHash(password, salt) == <<"$2a$", SaltRounds, salt, <<"digest">> \o password>>

bcryptCompare(candidate, hash) == hash = bcryptHash(candidate, hash[3])

comparePassword(user, candidatePassword) == bcryptCompare(candidatePassword, user.password)

----------------------------------------------------------------------------
(* Token Issuer/Verifier: jwt.sign and jwt.verify with JWT_SECRET *)

\* a value that does not cast to an ObjectId (the string 'admin', an absent id)
NotAnObjectId == 0

IsObjectId(id) == id /= NotAnObjectId

\* the subject of the admin token: _id: 'admin'
AdminSubject == NotAnObjectId

generateAuthToken(user, t) ==
    [_id |-> user._id, email |-> user.email, role |-> user.role,
     exp |-> t + EmployeeTokenHours, sig |-> "JWT_SECRET"]

generateAdminToken(adminUser, t) ==
    [_id |-> adminUser._id, email |-> adminUser.email, role |-> "admin",
     exp |-> t + AdminTokenHours, sig |-> "JWT_SECRET"]

adminUser == [_id |-> AdminSubject, role |-> "admin", email |-> <<"admin@system.com">>]

\* jwt.verify accepting a token at its expiry instant
jwtVerifyThroughExpiry(token, t) == token.sig = "JWT_SECRET" /\ t <= token.exp

\* jwt.verify throws on a signature made with another key and from the expiry on
jwtVerify(token, t) == token.sig = "JWT_SECRET" /\ t < token.exp

\* tokens signed with a key that is not JWT_SECRET
ForgedTokens ==
    {[_id |-> AdminSubject, email |-> <<"admin@system.com">>, role |-> "admin",
      exp |-> EmployeeTokenHours + EmployeeTokenHours, sig |-> "other key"]}

\* the Authorization header: absent, 'Bearer ' alone, or 'Bearer ' and a token
NoHeader == <<>>
BearerOnly == <<"Bearer ">>
Bearer(token) == <<"Bearer ", token>>

\* req.header('Authorization')?.replace('Bearer ', '')
headerToken(header) ==
    IF Len(header) > 0 /\ header[1] = "Bearer " THEN Tail(header) ELSE header

----------------------------------------------------------------------------
(* Credential Store and Complaint Store queries *)

selectWithoutPassword(user) == [f \in (DOMAIN user) \ {"password"} |-> user[f]]

findById(collection, id) == {d \in collection : d._id = id}

findOneByEmployeeNumber(employeeNumber) ==
    {u \in users : u.employeeNumber = employeeNumber}

\* a schema whose employeeNumber is not unique
duplicateKeyOnEmailOnly(doc) == \E u \in users : u.email = doc.email

\* the unique indexes of userSchema: email and employeeNumber
duplicateKey(doc) ==
    \E u \in users : u.email = doc.email \/ u.employeeNumber = doc.employeeNumber

ApprovalStatuses == {"pending", "approved", "rejected"}
ComplaintStatuses == {"pending", "received", "resolved"}
Priorities == {"low", "medium", "high"}

----------------------------------------------------------------------------
(* Access Guard *)

Verdict(status, message, user) == [status |-> status, message |-> message, user |-> user]

\* authMiddleware without the approvalStatus check of line 22
authMiddlewareWithoutApprovalCheck(header) ==
    LET token == headerToken(header) IN
    IF Falsy(token) THEN Verdict(401, "Authentication required", {})
    ELSE LET decoded == token[1] IN
         IF ~jwtVerify(decoded, now) THEN Verdict(401, "Invalid or expired token", {})
         ELSE IF ~IsObjectId(decoded._id) THEN Verdict(401, "Invalid or expired token", {})
         ELSE LET found == findById(users, decoded._id) IN
              IF found = {} THEN Verdict(401, "User not found", {})
              ELSE Verdict(0, "next", {selectWithoutPassword(u) : u \in found})

\* authMiddleware answering 403 instead of 401 when no account is found
authMiddlewareForbidsUnknownUser(header) ==
    LET token == headerToken(header) IN
    IF Falsy(token) THEN Verdict(401, "Authentication required", {})
    ELSE LET decoded == token[1] IN
         IF ~jwtVerify(decoded, now) THEN Verdict(401, "Invalid or expired token", {})
         ELSE IF ~IsObjectId(decoded._id) THEN Verdict(401, "Invalid or expired token", {})
         ELSE LET found == findById(users, decoded._id) IN
              IF found = {} \/ \E u \in found : u.approvalStatus /= "approved"
              THEN Verdict(403, "Account not approved", {})
              ELSE Verdict(0, "next", {selectWithoutPassword(u) : u \in found})

\* adminMiddleware without the role check of line 47
adminMiddlewareWithoutRoleCheck(header) ==
    LET token == headerToken(header) IN
    IF Falsy(token) THEN Verdict(401, "Authentication required", {})
    ELSE LET decoded == token[1] IN
         IF ~jwtVerify(decoded, now) THEN Verdict(401, "Invalid or expired token", {})
         ELSE Verdict(0, "next", {decoded})

\* authMiddleware letting a verified token with the role claim admin through
\* without a lookup
authMiddlewarePassingAdminRole(header) ==
    LET token == headerToken(header) IN
    IF Falsy(token) THEN Verdict(401, "Authentication required", {})
    ELSE LET decoded == token[1] IN
         IF ~jwtVerify(decoded, now) THEN Verdict(401, "Invalid or expired token", {})
         ELSE IF decoded.role = "admin"
         THEN Verdict(0, "next", {[_id |-> decoded._id, role |-> decoded.role]})
         ELSE IF ~IsObjectId(decoded._id) THEN Verdict(401, "Invalid or expired token", {})
         ELSE LET found == findById(users, decoded._id) IN
              IF found = {} THEN Verdict(401, "User not found", {})
              ELSE IF \E u \in found : u.approvalStatus /= "approved"
                   THEN Verdict(403, "Account not approved", {})
                   ELSE Verdict(0, "next", {selectWithoutPassword(u) : u \in found})

\* authMiddleware resolving the account by the e-mail claim of the token
authMiddlewareResolvingByEmail(header) ==
    LET token == headerToken(header) IN
    IF Falsy(token) THEN Verdict(401, "Authentication required", {})
    ELSE LET decoded == token[1] IN
         IF ~jwtVerify(decoded, now) THEN Verdict(401, "Invalid or expired token", {})
         ELSE IF ~IsObjectId(decoded._id) THEN Verdict(401, "Invalid or expired token", {})
         ELSE LET found == {u \in users : u.email = decoded.email} IN
              IF found = {} THEN Verdict(401, "User not found", {})
              ELSE IF \E u \in found : u.approvalStatus /= "approved"
                   THEN Verdict(403, "Account not approved", {})
                   ELSE Verdict(0, "next", {selectWithoutPassword(u) : u \in found})

\* status 0 stands for next(): the request goes on to the route's handler
authMiddleware(header) ==
    LET token == headerToken(header) IN
    IF Falsy(token) THEN Verdict(401, "Authentication required", {})
    ELSE LET decoded == token[1] IN
         IF ~jwtVerify(decoded, now) THEN Verdict(401, "Invalid or expired token", {})
         ELSE IF ~IsObjectId(decoded._id) THEN Verdict(401, "Invalid or expired token", {})
         ELSE LET found == findById(users, decoded._id) IN
              IF found = {} THEN Verdict(401, "User not found", {})
              ELSE IF \E u \in found : u.approvalStatus /= "approved"
                   THEN Verdict(403, "Account not approved", {})
                   ELSE Verdict(0, "next", {selectWithoutPassword(u) : u \in found})

\* adminMiddleware resolving the subject against the User collection, as
\* authMiddleware does
adminMiddlewareResolvingSubject(header) ==
    LET token == headerToken(header) IN
    IF Falsy(token) THEN Verdict(401, "Authentication required", {})
    ELSE LET decoded == token[1] IN
         IF ~jwtVerify(decoded, now) THEN Verdict(401, "Invalid or expired token", {})
         ELSE IF decoded.role /= "admin" THEN Verdict(403, "Admin access required", {})
         ELSE IF findById(users, decoded._id) = {}
         THEN Verdict(401, "Invalid or expired token", {})
         ELSE Verdict(0, "next", {decoded})

adminMiddleware(header) ==
    LET token == headerToken(header) IN
    IF Falsy(token) THEN Verdict(401, "Authentication required", {})
    ELSE LET decoded == token[1] IN
         IF ~jwtVerify(decoded, now) THEN Verdict(401, "Invalid or expired token", {})
         ELSE IF decoded.role /= "admin" THEN Verdict(403, "Admin access required", {})
         ELSE Verdict(0, "next", {decoded})

----------------------------------------------------------------------------
(* The step record and the initial state *)

\* a step that suspends at an awaited store call has sent no response yet
NoResponse == [sent |-> FALSE]

Json(status, body) == [sent |-> TRUE, status |-> status, body |-> body]

Failure(status, message) == Json(status, [success |-> FALSE, message |-> message])

Step(op, phase, req, res) == [op |-> op, phase |-> phase, req |-> req, res |-> res]

Init ==
    /\ users = {}
    /\ complaints = {}
    /\ issued = {}
    /\ inflight = {}
    /\ now = 0
    /\ nextUserId = 1
    /\ nextComplaintId = 1
    /\ last = Step("listen", "start", [none |-> TRUE], NoResponse)

Suspended(op) == {r \in inflight : r.op = op}

----------------------------------------------------------------------------
(* POST /api/auth/register *)

\* the synchronous validation and the awaited User.findOne({ employeeNumber })
registerCheck(body) ==
    IF \/ Falsy(body.name) \/ Falsy(body.password) \/ Falsy(body.employeeNumber)
       \/ Falsy(body.department) \/ Falsy(body.workLocation)
    THEN Failure(400, "All fields are required")
    ELSE IF ~phoneRegex(body.employeeNumber)
    THEN Failure(400, "Phone number must be exactly 10 digits")
    ELSE IF Len(body.password) < MinPasswordLength
    THEN Failure(400, "Password must be at least 6 characters")
    ELSE IF findOneByEmployeeNumber(body.employeeNumber) /= {}
    THEN Failure(400, "Phone number already registered")
    ELSE NoResponse

\* User.create handed the whole request body, role included
newUserWithRoleOfBody(body, id, salt) ==
    [_id |-> id,
     name |-> body.name,
     email |-> generatedEmail(body),
     password |-> bcryptHash(body.password, salt),
     employeeNumber |-> body.employeeNumber,
     department |-> body.department,
     workLocation |-> body.workLocation,
     role |-> IF body.role = Undefined THEN "employee" ELSE body.role,
     approvalStatus |-> "pending"]

\* User.create handed the whole request body, approvalStatus included
newUserWithApprovalStatusOfBody(body, id, salt) ==
    [_id |-> id,
     name |-> body.name,
     email |-> generatedEmail(body),
     password |-> bcryptHash(body.password, salt),
     employeeNumber |-> body.employeeNumber,
     department |-> body.department,
     workLocation |-> body.workLocation,
     role |-> "employee",
     approvalStatus |-> IF body.approvalStatus = Undefined THEN "pending"
                        ELSE body.approvalStatus]

\* User.create without the pre('save') hook: the password is stored as supplied
newUserWithPlainPassword(body, id, salt) ==
    [_id |-> id,
     name |-> body.name,
     email |-> generatedEmail(body),
     password |-> body.password,
     employeeNumber |-> body.employeeNumber,
     department |-> body.department,
     workLocation |-> body.workLocation,
     role |-> "employee",
     approvalStatus |-> "pending"]

\* the document User.create builds: schema defaults, then the pre('save') hash
newUser(body, id, salt) ==
    [_id |-> id,
     name |-> body.name,
     email |-> generatedEmail(body),
     password |-> bcryptHash(body.password, salt),
     employeeNumber |-> body.employeeNumber,
     department |-> body.department,
     workLocation |-> body.workLocation,
     role |-> "employee",
     approvalStatus |-> "pending"]

registered(user) ==
    Json(201, [success |-> TRUE,
               message |-> "Registration successful! Wait for admin approval.",
               user |-> [_id |-> user._id, name |-> user.name,
                         employeeNumber |-> user.employeeNumber]])

Register(body) ==
    /\ LET res == registerCheck(body) IN
       /\ last' = Step("register", "check", body, res)
       /\ IF res.sent
          THEN inflight' = inflight
          ELSE /\ Cardinality(inflight) < MaxInflight
               /\ nextUserId + Cardinality(Suspended("register")) <= MaxUsers
               /\ inflight' = inflight \cup {[op |-> "register", body |-> body]}
    /\ UNCHANGED <<users, complaints, issued, now, nextUserId, nextComplaintId>>

\* the awaited User.create: the insert fails on either unique index
RegisterCreate(r, salt) ==
    /\ r \in Suspended("register")
    /\ inflight' = inflight \ {r}
    /\ LET user == newUser(r.body, nextUserId, salt) IN
       IF duplicateKey(user)
       THEN /\ last' = Step("register", "create", r.body, Failure(500, "Server error occurred"))
            /\ UNCHANGED <<users, nextUserId>>
       ELSE /\ users' = users \cup {user}
            /\ nextUserId' = nextUserId + 1
            /\ last' = Step("register", "create", r.body, registered(user))
    /\ UNCHANGED <<complaints, issued, now, nextComplaintId>>

----------------------------------------------------------------------------
(* POST /api/auth/login and POST /api/auth/admin/login *)

loggedIn(user, token) ==
    Json(200, [success |-> TRUE, token |-> token,
               user |-> [_id |-> user._id, name |-> user.name, email |-> user.email,
                         role |-> user.role, department |-> user.department,
                         workLocation |-> user.workLocation,
                         employeeNumber |-> user.employeeNumber,
                         approvalStatus |-> user.approvalStatus]])

\* login without the rejected check of line 218
loginWithoutRejectedCheck(body, t) ==
    LET phoneNumber == body.email IN
    IF Falsy(phoneNumber) \/ Falsy(body.password)
    THEN Failure(400, "Phone number and password required")
    ELSE LET found == findOneByEmployeeNumber(phoneNumber) IN
         IF found = {} \/ \E u \in found : ~comparePassword(u, body.password)
         THEN Failure(401, "Invalid credentials")
         ELSE LET user == CHOOSE u \in found : TRUE IN
              IF user.approvalStatus = "pending"
              THEN Failure(403, "Account pending approval")
              ELSE loggedIn(user, generateAuthToken(user, t))

\* login telling an unknown phone number from a wrong password
loginNamingUnknownUser(body, t) ==
    LET phoneNumber == body.email IN
    IF Falsy(phoneNumber) \/ Falsy(body.password)
    THEN Failure(400, "Phone number and password required")
    ELSE LET found == findOneByEmployeeNumber(phoneNumber) IN
         IF found = {} THEN Failure(404, "User not found")
         ELSE IF \E u \in found : ~comparePassword(u, body.password)
         THEN Failure(401, "Invalid credentials")
         ELSE LET user == CHOOSE u \in found : TRUE IN
              IF user.approvalStatus = "pending"
              THEN Failure(403, "Account pending approval")
              ELSE IF user.approvalStatus = "rejected"
              THEN Failure(403, "Account rejected. Contact HR.")
              ELSE loggedIn(user, generateAuthToken(user, t))

\* the response of login to `body` at time t
login(body, t) ==
    LET phoneNumber == body.email IN
    IF Falsy(phoneNumber) \/ Falsy(body.password)
    THEN Failure(400, "Phone number and password required")
    ELSE LET found == findOneByEmployeeNumber(phoneNumber) IN
         IF found = {} \/ \E u \in found : ~comparePassword(u, body.password)
         THEN Failure(401, "Invalid credentials")
         ELSE LET user == CHOOSE u \in found : TRUE IN
              IF user.approvalStatus = "pending"
              THEN Failure(403, "Account pending approval")
              ELSE IF user.approvalStatus = "rejected"
              THEN Failure(403, "Account rejected. Contact HR.")
              ELSE loggedIn(user, generateAuthToken(user, t))

\* the tokens a response hands to the client
tokensOf(res) ==
    IF res.sent /\ res.status = 200 /\ "token" \in DOMAIN res.body
    THEN {res.body.token} ELSE {}

Login(body) ==
    /\ LET res == login(body, now) IN
       /\ last' = Step("login", "done", body, res)
       /\ issued' = issued \cup tokensOf(res)
       /\ Cardinality(issued') <= MaxTokens
    /\ UNCHANGED <<users, complaints, inflight, now, nextUserId, nextComplaintId>>

\* admin login comparing the username alone
adminLoginByUsernameOnly(body, t) ==
    IF Falsy(body.username) \/ Falsy(body.password)
    THEN Failure(400, "Username and password required")
    ELSE IF body.username /= ADMIN_USERNAME
    THEN Failure(401, "Invalid admin credentials")
    ELSE Json(200, [success |-> TRUE, token |-> generateAdminToken(adminUser, t),
                    user |-> [role |-> "admin", username |-> ADMIN_USERNAME]])

adminLogin(body, t) ==
    IF Falsy(body.username) \/ Falsy(body.password)
    THEN Failure(400, "Username and password required")
    ELSE IF body.username /= ADMIN_USERNAME \/ body.password /= ADMIN_PASSWORD
    THEN Failure(401, "Invalid admin credentials")
    ELSE Json(200, [success |-> TRUE, token |-> generateAdminToken(adminUser, t),
                    user |-> [role |-> "admin", username |-> ADMIN_USERNAME]])

AdminLogin(body) ==
    /\ LET res == adminLogin(body, now) IN
       /\ last' = Step("adminLogin", "done", body, res)
       /\ issued' = issued \cup tokensOf(res)
       /\ Cardinality(issued') <= MaxTokens
    /\ UNCHANGED <<users, complaints, inflight, now, nextUserId, nextComplaintId>>

----------------------------------------------------------------------------
(* Complaint routes behind authMiddleware *)

EmployeeRoutes == {"listComplaints", "createComplaint", "getComplaint"}

\* authMiddleware up to its awaited User.findById; next() leaves the request
\* suspended at the handler's own store call
EmployeeGate(op, header) ==
    /\ op \in EmployeeRoutes
    /\ LET verdict == authMiddleware(header) IN
       IF verdict.status /= 0
       THEN /\ last' = Step(op, "gate", [header |-> header],
                            Failure(verdict.status, verdict.message))
            /\ inflight' = inflight
       ELSE /\ Cardinality(inflight) < MaxInflight
            /\ op = "createComplaint" =>
                 nextComplaintId + Cardinality(Suspended("createComplaint")) <= MaxComplaints
            /\ last' = Step(op, "gate", [header |-> header, user |-> verdict.user], NoResponse)
            /\ inflight' = inflight \cup {[op |-> op, user |-> verdict.user]}
    /\ UNCHANGED <<users, complaints, issued, now, nextUserId, nextComplaintId>>

\* GET /api/complaints: Complaint.find(), the whole collection
ListComplaints(r) ==
    /\ r \in Suspended("listComplaints")
    /\ inflight' = inflight \ {r}
    /\ last' = Step(r.op, "handler", [user |-> r.user], Json(200, [array |-> complaints]))
    /\ UNCHANGED <<users, complaints, issued, now, nextUserId, nextComplaintId>>

\* a schema without the enum validators of priority and status
complaintValidWithoutEnums(body) ==
    /\ IsObjectId(body.employeeId)
    /\ body.employeeName /= Undefined
    /\ body.employeeEmail /= Undefined
    /\ body.department /= Undefined
    /\ body.category /= Undefined
    /\ body.message /= Undefined

\* the validators of complaintSchema: required paths, the ObjectId cast, the enums
complaintValid(body) ==
    /\ IsObjectId(body.employeeId)
    /\ body.employeeName /= Undefined
    /\ body.employeeEmail /= Undefined
    /\ body.department /= Undefined
    /\ body.category /= Undefined
    /\ body.message /= Undefined
    /\ body.priority \in Priorities \cup {Undefined}
    /\ body.status \in ComplaintStatuses \cup {Undefined}

\* a schema whose status defaults to received
newComplaintAsReceived(body, id) ==
    [_id |-> id,
     employeeId |-> body.employeeId,
     employeeName |-> body.employeeName,
     employeeEmail |-> body.employeeEmail,
     employeeNumber |-> body.employeeNumber,
     department |-> body.department,
     category |-> body.category,
     priority |-> IF body.priority = Undefined THEN "medium" ELSE body.priority,
     message |-> body.message,
     status |-> IF body.status = Undefined THEN "received" ELSE body.status,
     adminReply |-> IF body.adminReply = Undefined THEN "" ELSE body.adminReply]

\* the document Complaint.create(req.body) builds: the schema paths of the
\* body, with the schema defaults for the absent ones
newComplaint(body, id) ==
    [_id |-> id,
     employeeId |-> body.employeeId,
     employeeName |-> body.employeeName,
     employeeEmail |-> body.employeeEmail,
     employeeNumber |-> body.employeeNumber,
     department |-> body.department,
     category |-> body.category,
     priority |-> IF body.priority = Undefined THEN "medium" ELSE body.priority,
     message |-> body.message,
     status |-> IF body.status = Undefined THEN "pending" ELSE body.status,
     adminReply |-> IF body.adminReply = Undefined THEN "" ELSE body.adminReply]

\* POST /api/complaints
CreateComplaint(r, body) ==
    /\ r \in Suspended("createComplaint")
    /\ inflight' = inflight \ {r}
    /\ IF complaintValid(body)
       THEN LET complaint == newComplaint(body, nextComplaintId) IN
            /\ complaints' = complaints \cup {complaint}
            /\ nextComplaintId' = nextComplaintId + 1
            /\ last' = Step(r.op, "handler", [user |-> r.user, body |-> body],
                            Json(201, [success |-> TRUE, complaint |-> complaint]))
       ELSE /\ last' = Step(r.op, "handler", [user |-> r.user, body |-> body],
                            Failure(500, "Server error occurred"))
            /\ UNCHANGED <<complaints, nextComplaintId>>
    /\ UNCHANGED <<users, issued, now, nextUserId>>

\* GET /api/complaints/:id
GetComplaint(r, id) ==
    /\ r \in Suspended("getComplaint")
    /\ inflight' = inflight \ {r}
    /\ LET found == findById(complaints, id) IN
       last' = Step(r.op, "handler", [user |-> r.user, id |-> id],
                    IF found = {} THEN Failure(404, "Not found")
                    ELSE Json(200, [success |-> TRUE,
                                    complaint |-> CHOOSE c \in found : TRUE]))
    /\ UNCHANGED <<users, complaints, issued, now, nextUserId, nextComplaintId>>

----------------------------------------------------------------------------
(* Admin routes behind adminMiddleware.  adminMiddleware awaits nothing, so  *)
(* the gate and the handler up to its first store call are one step.        *)

Rejected(op, header, verdict) ==
    Step(op, "gate", [header |-> header], Failure(verdict.status, verdict.message))

\* GET /api/admin/users
listUsers == Json(200, [success |-> TRUE, users |-> {selectWithoutPassword(u) : u \in users}])

AdminListUsers(header) ==
    /\ LET verdict == adminMiddleware(header) IN
       last' = IF verdict.status /= 0 THEN Rejected("listUsers", header, verdict)
               ELSE Step("listUsers", "handler", [header |-> header], listUsers)
    /\ UNCHANGED <<users, complaints, issued, inflight, now, nextUserId, nextComplaintId>>

\* GET /api/admin/users/pending
listPendingUsers ==
    Json(200, [success |-> TRUE,
               users |-> {selectWithoutPassword(u) :
                            u \in {x \in users : x.approvalStatus = "pending"}}])

AdminListPendingUsers(header) ==
    /\ LET verdict == adminMiddleware(header) IN
       last' = IF verdict.status /= 0 THEN Rejected("listPendingUsers", header, verdict)
               ELSE Step("listPendingUsers", "handler", [header |-> header], listPendingUsers)
    /\ UNCHANGED <<users, complaints, issued, inflight, now, nextUserId, nextComplaintId>>

\* PATCH /api/admin/users/:id/approval: the response carries the document
\* User.findByIdAndUpdate returns, no projection applied
approvalResponse(user) == Json(200, [success |-> TRUE, user |-> user])

\* an update that only rules on a pending account
setApprovalStatusFromPendingOnly(user, approvalStatus) ==
    IF user.approvalStatus /= "pending" THEN user
    ELSE [user EXCEPT !.approvalStatus = approvalStatus]

\* the update { approvalStatus } of User.findByIdAndUpdate
setApprovalStatus(user, approvalStatus) == [user EXCEPT !.approvalStatus = approvalStatus]

UpdateApproval(header, id, body) ==
    /\ LET verdict == adminMiddleware(header)
           req == [header |-> header, id |-> id, body |-> body]
           found == findById(users, id)
       IN  IF verdict.status /= 0
           THEN /\ last' = Rejected("updateApproval", header, verdict)
                /\ users' = users
           ELSE IF body.approvalStatus \notin ApprovalStatuses
           THEN /\ last' = Step("updateApproval", "handler", req,
                                Failure(400, "Invalid approval status"))
                /\ users' = users
           ELSE IF found = {}
           THEN /\ last' = Step("updateApproval", "handler", req, Failure(404, "User not found"))
                /\ users' = users
           ELSE LET old == CHOOSE u \in found : TRUE
                    new == setApprovalStatus(old, body.approvalStatus)
                IN  /\ users' = (users \ {old}) \cup {new}
                    /\ last' = Step("updateApproval", "handler", req, approvalResponse(new))
    /\ UNCHANGED <<complaints, issued, inflight, now, nextUserId, nextComplaintId>>

\* the handler running deleteMany before it looks at what findByIdAndDelete
\* returned
DeleteUserCascadingFirst(header, id) ==
    /\ LET verdict == adminMiddleware(header)
           req == [header |-> header, id |-> id]
           found == findById(users, id)
       IN  IF verdict.status /= 0
           THEN /\ last' = Rejected("deleteUser", header, verdict)
                /\ UNCHANGED <<users, complaints, inflight>>
           ELSE IF found = {}
           THEN /\ last' = Step("deleteUser", "handler", req, Failure(404, "User not found"))
                /\ complaints' = {c \in complaints : c.employeeId /= id}
                /\ UNCHANGED <<users, inflight>>
           ELSE /\ Cardinality(inflight) < MaxInflight
                /\ users' = users \ found
                /\ inflight' = inflight \cup {[op |-> "deleteUser", userId |-> id]}
                /\ last' = Step("deleteUser", "handler", req, NoResponse)
                /\ complaints' = complaints
    /\ UNCHANGED <<issued, now, nextUserId, nextComplaintId>>

\* the account and its complaints deleted in one transaction
DeleteUserInOneStep(header, id) ==
    /\ LET verdict == adminMiddleware(header)
           req == [header |-> header, id |-> id]
           found == findById(users, id)
       IN  IF verdict.status /= 0
           THEN /\ last' = Rejected("deleteUser", header, verdict)
                /\ UNCHANGED <<users, complaints>>
           ELSE IF found = {}
           THEN /\ last' = Step("deleteUser", "handler", req, Failure(404, "User not found"))
                /\ UNCHANGED <<users, complaints>>
           ELSE /\ users' = users \ found
                /\ complaints' = {c \in complaints : c.employeeId /= id}
                /\ last' = Step("deleteUser", "handler", req,
                                Json(200, [success |-> TRUE,
                                           message |-> "User and associated complaints deleted successfully"]))
    /\ UNCHANGED <<inflight, issued, now, nextUserId, nextComplaintId>>

\* DELETE /api/admin/users/:id, up to the awaited User.findByIdAndDelete
DeleteUser(header, id) ==
    /\ LET verdict == adminMiddleware(header)
           req == [header |-> header, id |-> id]
           found == findById(users, id)
       IN  IF verdict.status /= 0
           THEN /\ last' = Rejected("deleteUser", header, verdict)
                /\ UNCHANGED <<users, inflight>>
           ELSE IF found = {}
           THEN /\ last' = Step("deleteUser", "handler", req, Failure(404, "User not found"))
                /\ UNCHANGED <<users, inflight>>
           ELSE /\ Cardinality(inflight) < MaxInflight
                /\ users' = users \ found
                /\ inflight' = inflight \cup {[op |-> "deleteUser", userId |-> id]}
                /\ last' = Step("deleteUser", "handler", req, NoResponse)
    /\ UNCHANGED <<complaints, issued, now, nextUserId, nextComplaintId>>

\* deleteMany with an empty filter
deleteManyOfEveryone(userId) == complaints

\* the documents Complaint.deleteMany({ employeeId: userId }) deletes
deleteMany(userId) == {c \in complaints : c.employeeId = userId}

\* the awaited Complaint.deleteMany({ employeeId: userId }) and the response
DeleteUserComplaints(r) ==
    /\ r \in Suspended("deleteUser")
    /\ inflight' = inflight \ {r}
    /\ complaints' = complaints \ deleteMany(r.userId)
    /\ last' = Step("deleteUser", "cascade",
                    [id |-> r.userId, deletedCount |-> Cardinality(deleteMany(r.userId))],
                    Json(200, [success |-> TRUE,
                               message |-> "User and associated complaints deleted successfully"]))
    /\ UNCHANGED <<users, issued, now, nextUserId, nextComplaintId>>

\* GET /api/admin/complaints
AdminListComplaints(header) ==
    /\ LET verdict == adminMiddleware(header) IN
       last' = IF verdict.status /= 0 THEN Rejected("adminListComplaints", header, verdict)
               ELSE Step("adminListComplaints", "handler", [header |-> header],
                         Json(200, [success |-> TRUE, complaints |-> complaints]))
    /\ UNCHANGED <<users, complaints, issued, inflight, now, nextUserId, nextComplaintId>>

StatusOrder == <<"pending", "received", "resolved">>

\* an update that only moves a complaint forward
setStatusForwardOnly(complaint, status) ==
    LET rank(x) == CHOOSE i \in 1..Len(StatusOrder) : StatusOrder[i] = x IN
    IF rank(status) < rank(complaint.status) THEN complaint
    ELSE [complaint EXCEPT !.status = status]

\* the update { status } of Complaint.findByIdAndUpdate
setStatus(complaint, status) == [complaint EXCEPT !.status = status]

\* PATCH /api/admin/complaints/:id/status
UpdateStatus(header, id, body) ==
    /\ LET verdict == adminMiddleware(header)
           req == [header |-> header, id |-> id, body |-> body]
           found == findById(complaints, id)
       IN  IF verdict.status /= 0
           THEN /\ last' = Rejected("updateStatus", header, verdict)
                /\ complaints' = complaints
           ELSE IF body.status \notin ComplaintStatuses
           THEN /\ last' = Step("updateStatus", "handler", req, Failure(400, "Invalid status"))
                /\ complaints' = complaints
           ELSE IF found = {}
           THEN /\ last' = Step("updateStatus", "handler", req,
                                Failure(404, "Complaint not found"))
                /\ complaints' = complaints
           ELSE LET old == CHOOSE c \in found : TRUE
                    new == setStatus(old, body.status)
                IN  /\ complaints' = (complaints \ {old}) \cup {new}
                    /\ last' = Step("updateStatus", "handler", req,
                                    Json(200, [success |-> TRUE, complaint |-> new]))
    /\ UNCHANGED <<users, issued, inflight, now, nextUserId, nextComplaintId>>

\* adminMiddleware answering 401 or 403 without returning: the handler of the
\* route runs all the same
DeleteComplaintAfterRejection(header, id) ==
    /\ LET verdict == adminMiddleware(header)
           req == [header |-> header, id |-> id]
           found == findById(complaints, id)
       IN  IF verdict.status /= 0
           THEN /\ last' = Rejected("deleteComplaint", header, verdict)
                /\ complaints' = complaints \ found
           ELSE IF found = {}
           THEN /\ last' = Step("deleteComplaint", "handler", req,
                                Failure(404, "Complaint not found"))
                /\ complaints' = complaints
           ELSE /\ complaints' = complaints \ found
                /\ last' = Step("deleteComplaint", "handler", req,
                                Json(200, [success |-> TRUE,
                                           message |-> "Complaint deleted successfully"]))
    /\ UNCHANGED <<users, issued, inflight, now, nextUserId, nextComplaintId>>

\* the handler without its check of what findByIdAndDelete returned
DeleteComplaintWithoutNotFound(header, id) ==
    /\ LET verdict == adminMiddleware(header)
           req == [header |-> header, id |-> id]
           found == findById(complaints, id)
       IN  IF verdict.status /= 0
           THEN /\ last' = Rejected("deleteComplaint", header, verdict)
                /\ complaints' = complaints
           ELSE /\ complaints' = complaints \ found
                /\ last' = Step("deleteComplaint", "handler", req,
                                Json(200, [success |-> TRUE,
                                           message |-> "Complaint deleted successfully"]))
    /\ UNCHANGED <<users, issued, inflight, now, nextUserId, nextComplaintId>>

\* DELETE /api/admin/complaints/:id
DeleteComplaint(header, id) ==
    /\ LET verdict == adminMiddleware(header)
           req == [header |-> header, id |-> id]
           found == findById(complaints, id)
       IN  IF verdict.status /= 0
           THEN /\ last' = Rejected("deleteComplaint", header, verdict)
                /\ complaints' = complaints
           ELSE IF found = {}
           THEN /\ last' = Step("deleteComplaint", "handler", req,
                                Failure(404, "Complaint not found"))
                /\ complaints' = complaints
           ELSE /\ complaints' = complaints \ found
                /\ last' = Step("deleteComplaint", "handler", req,
                                Json(200, [success |-> TRUE,
                                           message |-> "Complaint deleted successfully"]))
    /\ UNCHANGED <<users, issued, inflight, now, nextUserId, nextComplaintId>>

----------------------------------------------------------------------------
(* The employee page *)

\* fetchComplaints: of the array GET /api/complaints answers with, the page
\* keeps the complaints whose employeeId is the identifier of its user
fetchComplaints(array, user) == {c \in array : c.employeeId = user._id}

----------------------------------------------------------------------------
(* The process *)

\* the process exits with requests still suspended at a store call (the forced
\* exit of the shutdown, a kill): what they had left to do is never done
Crash ==
    /\ inflight /= {}
    /\ inflight' = {}
    /\ last' = Step("process", "exit", [none |-> TRUE], NoResponse)
    /\ UNCHANGED <<users, complaints, issued, now, nextUserId, nextComplaintId>>

----------------------------------------------------------------------------
(* The clock *)

\* the clock moves forward to the instant t
Tick(t) ==
    /\ t > now
    /\ now' = t
    /\ last' = Step("clock", "tick", [none |-> TRUE], NoResponse)
    /\ UNCHANGED <<users, complaints, issued, inflight, nextUserId, nextComplaintId>>

----------------------------------------------------------------------------
(* The requests the clients send *)

PhoneA == <<"9", "8", "7", "6", "5", "4", "3", "2", "1", "0">>
PhoneB == <<"9", "8", "7", "6", "5", "4", "3", "2", "1", "1">>
PhoneShort == <<"9", "8", "7", "6", "5", "4", "3", "2", "1">>
PhoneAlpha == <<"9", "8", "7", "6", "5", "4", "3", "2", "1", "x">>
PhoneLong == <<"9", "8", "7", "6", "5", "4", "3", "2", "1", "0", "0">>

PasswordA == <<"s", "e", "c", "r", "e", "t", "1">>
PasswordB == <<"h", "u", "n", "t", "e", "r", "2">>
PasswordShort == <<"a", "b", "c">>

CustomEmail == <<"hr@corp.example">>
Salts == {"salt1", "salt2"}

RegisterBody(name, email, password, employeeNumber, role) ==
    [name |-> name, email |-> email, password |-> password,
     employeeNumber |-> employeeNumber, department |-> <<"Finance">>,
     workLocation |-> <<"Kochi">>, role |-> role, approvalStatus |-> Undefined]

LoginBodies ==
    {[email |-> p, password |-> w] : p \in {PhoneA, PhoneB}, w \in {PasswordA, PasswordB}}
    \cup {[email |-> PhoneA, password |-> NoStr]}

AdminLoginBodies ==
    {[username |-> ADMIN_USERNAME, password |-> ADMIN_PASSWORD],
     [username |-> ADMIN_USERNAME, password |-> PasswordA],
     [username |-> PhoneA, password |-> ADMIN_PASSWORD],
     [username |-> NoStr, password |-> ADMIN_PASSWORD]}

Headers == {NoHeader, BearerOnly} \cup {Bearer(t) : t \in issued \cup ForgedTokens}

UserIds == 1..MaxUsers
ComplaintIds == 1..MaxComplaints

\* the body the complaint form sends for `user`, and what a caller may change in it
ComplaintBody(user, employeeId, category, priority, status) ==
    [employeeId |-> employeeId, employeeName |-> user.name, employeeEmail |-> user.email,
     employeeNumber |-> user.employeeNumber, department |-> user.department,
     category |-> category, priority |-> priority, message |-> "the printer is broken",
     status |-> status, adminReply |-> Undefined]

ComplaintBodies(r) ==
    LET user == CHOOSE u \in r.user : TRUE IN
    {ComplaintBody(user, user._id, "PF", "high", Undefined),
     ComplaintBody(user, user._id, Undefined, "high", Undefined),
     ComplaintBody(user, user._id, "PF", "urgent", Undefined),
     ComplaintBody(user, user._id, "PF", "low", "closed"),
     ComplaintBody(user, NotAnObjectId, "PF", Undefined, Undefined)}
    \cup {ComplaintBody(user, id, "PF", Undefined, "resolved") : id \in UserIds}

ApprovalBodies == {[approvalStatus |-> a] : a \in ApprovalStatuses \cup {"banned"}}
StatusBodies == {[status |-> a] : a \in ComplaintStatuses \cup {"closed"}}

----------------------------------------------------------------------------
(* The specification of the two gates: one phone number, every kind of      *)
(* header, every gated route, and the clock.                                *)

\* the clients take turns: a request is sent when the one before is answered
OneAtATime == Cardinality(inflight') <= Sequential

FormRegisterBody(p) == RegisterBody(<<"Asha">>, NoStr, PasswordA, p, Undefined)

FormComplaintBody(r) ==
    LET user == CHOOSE u \in r.user : TRUE IN
    ComplaintBody(user, user._id, "PF", "high", Undefined)

\* the form's request, and the same request carrying an approvalStatus of its own
GateRegisterBodies ==
    {FormRegisterBody(PhoneA),
     [FormRegisterBody(PhoneA) EXCEPT !.approvalStatus = "approved"]}

Next ==
    \/ \E body \in GateRegisterBodies : Register(body) /\ OneAtATime
    \/ \E r \in inflight : RegisterCreate(r, "salt1")
    \/ Login([email |-> PhoneA, password |-> PasswordA])
    \/ AdminLogin([username |-> ADMIN_USERNAME, password |-> ADMIN_PASSWORD])
    \/ \E op \in EmployeeRoutes, header \in Headers :
         /\ op = "createComplaint" => nextComplaintId <= GateComplaints
         /\ EmployeeGate(op, header) /\ OneAtATime
    \/ \E r \in inflight : ListComplaints(r)
    \/ \E r \in Suspended("createComplaint") : CreateComplaint(r, FormComplaintBody(r))
    \/ \E r \in inflight, id \in 1..GateComplaints : GetComplaint(r, id)
    \/ \E header \in Headers : AdminListUsers(header)
    \/ \E header \in Headers : AdminListPendingUsers(header)
    \/ \E header \in Headers, id \in UserIds, body \in ApprovalBodies :
         UpdateApproval(header, id, body)
    \/ \E header \in Headers, id \in UserIds : DeleteUser(header, id) /\ OneAtATime
    \/ \E r \in inflight : DeleteUserComplaints(r)
    \/ \E header \in Headers : AdminListComplaints(header)
    \/ \E header \in Headers, id \in 1..GateComplaints, body \in StatusBodies :
         UpdateStatus(header, id, body)
    \/ \E header \in Headers, id \in 1..GateComplaints : DeleteComplaint(header, id)
    \/ Tick(EmployeeTokenHours)

Spec == Init /\ [][Next]_vars

----------------------------------------------------------------------------
(* The specification of the account routes: two phone numbers, requests     *)
(* that set the e-mail and the role, right and wrong passwords.             *)

AuthRegisterBodies ==
    {FormRegisterBody(PhoneA), FormRegisterBody(PhoneB),
     RegisterBody(<<"Asha">>, CustomEmail, PasswordA, PhoneA, "admin"),
     RegisterBody(<<"Binu">>, CustomEmail, PasswordB, PhoneB, Undefined),
     RegisterBody(<<"Asha">>, NoStr, PasswordShort, PhoneB, Undefined),
     RegisterBody(<<"Asha">>, NoStr, PasswordA, PhoneShort, Undefined),
     RegisterBody(<<"Asha">>, NoStr, PasswordA, PhoneAlpha, Undefined),
     RegisterBody(<<"Asha">>, NoStr, PasswordA, PhoneLong, Undefined),
     RegisterBody(<<"Asha">>, NoStr, NoStr, PhoneB, Undefined),
     RegisterBody(<<"Asha">>, NoStr, PasswordA, NoStr, Undefined),
     [FormRegisterBody(PhoneB) EXCEPT !.department = NoStr],
     [FormRegisterBody(PhoneB) EXCEPT !.workLocation = NoStr],
     RegisterBody(NoStr, NoStr, PasswordA, PhoneB, Undefined)}

AdminHeaders == {NoHeader} \cup {Bearer(t) : t \in issued}

NextAuth ==
    \/ \E body \in AuthRegisterBodies : Register(body) /\ OneAtATime
    \/ \E r \in inflight, salt \in Salts : RegisterCreate(r, salt)
    \/ \E body \in LoginBodies : Login(body)
    \/ \E body \in AdminLoginBodies : AdminLogin(body)
    \/ \E header \in AdminHeaders : AdminListUsers(header)
    \/ \E header \in AdminHeaders : AdminListPendingUsers(header)
    \/ \E header \in AdminHeaders, id \in UserIds, body \in ApprovalBodies :
         UpdateApproval(header, id, body)
    \/ \E header \in AdminHeaders, id \in UserIds : DeleteUser(header, id) /\ OneAtATime
    \/ \E r \in inflight : DeleteUserComplaints(r)

SpecAuth == Init /\ [][NextAuth]_vars

----------------------------------------------------------------------------
(* The specification of the complaint routes: two accounts, complaint       *)
(* bodies as the form sends them and as a caller may change them.           *)

EmployeeHeaders == {Bearer(t) : t \in issued}

NextComplaints ==
    \/ \E p \in {PhoneA, PhoneB} : Register(FormRegisterBody(p)) /\ OneAtATime
    \/ \E r \in inflight : RegisterCreate(r, "salt1")
    \/ Login([email |-> PhoneA, password |-> PasswordA])
    \/ AdminLogin([username |-> ADMIN_USERNAME, password |-> ADMIN_PASSWORD])
    \/ \E header \in AdminHeaders, id \in UserIds, a \in {"approved", "banned"} :
         UpdateApproval(header, id, [approvalStatus |-> a])
    \/ \E header \in EmployeeHeaders : EmployeeGate("createComplaint", header) /\ OneAtATime
    \/ \E r \in Suspended("createComplaint") :
         \E body \in ComplaintBodies(r) : CreateComplaint(r, body)
    \/ \E header \in AdminHeaders, id \in ComplaintIds, body \in StatusBodies :
         UpdateStatus(header, id, body)
    \/ \E header \in AdminHeaders, id \in ComplaintIds : DeleteComplaint(header, id)
    \/ \E header \in AdminHeaders, id \in UserIds : DeleteUser(header, id) /\ OneAtATime
    \/ \E r \in inflight : DeleteUserComplaints(r)

SpecComplaints == Init /\ [][NextComplaints]_vars

----------------------------------------------------------------------------
(* The specification of the token windows: one account, one gated route of  *)
(* each gate, and a clock that stops right before, at and right after the   *)
(* expiry of the tokens issued at the hours 0 and 1.                        *)

Instants ==
    {1, AdminTokenHours - 1, AdminTokenHours, AdminTokenHours + 1,
     EmployeeTokenHours - 1, EmployeeTokenHours, EmployeeTokenHours + 1}

NextTokens ==
    \/ Register(FormRegisterBody(PhoneA)) /\ OneAtATime
    \/ \E r \in inflight : RegisterCreate(r, "salt1")
    \/ Login([email |-> PhoneA, password |-> PasswordA])
    \/ AdminLogin([username |-> ADMIN_USERNAME, password |-> ADMIN_PASSWORD])
    \/ \E header \in AdminHeaders, id \in UserIds :
         UpdateApproval(header, id, [approvalStatus |-> "approved"])
    \/ \E header \in EmployeeHeaders : EmployeeGate("listComplaints", header) /\ OneAtATime
    \/ \E r \in inflight : ListComplaints(r)
    \/ \E header \in AdminHeaders : AdminListUsers(header)
    \/ \E t \in Instants : Tick(t)

SpecTokens == Init /\ [][NextTokens]_vars

----------------------------------------------------------------------------
(* The specification of concurrent requests: two requests may be suspended  *)
(* at their store calls at a time, and their steps interleave freely.       *)

\* register requests that race: for one phone number, and with one e-mail
RaceRegisterBodies ==
    {FormRegisterBody(PhoneA),
     RegisterBody(<<"Binu">>, CustomEmail, PasswordA, PhoneA, Undefined),
     RegisterBody(<<"Binu">>, CustomEmail, PasswordA, PhoneB, Undefined)}

NextConcurrent ==
    \/ \E body \in RaceRegisterBodies : Register(body)
    \/ \E r \in inflight : RegisterCreate(r, "salt1")
    \/ Login([email |-> PhoneA, password |-> PasswordA])
    \/ AdminLogin([username |-> ADMIN_USERNAME, password |-> ADMIN_PASSWORD])
    \/ \E header \in AdminHeaders, id \in UserIds :
         UpdateApproval(header, id, [approvalStatus |-> "approved"])
    \/ \E op \in {"listComplaints", "createComplaint"}, header \in EmployeeHeaders :
         /\ op = "createComplaint" => nextComplaintId <= GateComplaints
         /\ EmployeeGate(op, header)
    \/ \E r \in inflight : ListComplaints(r)
    \/ \E r \in Suspended("createComplaint") : CreateComplaint(r, FormComplaintBody(r))
    \/ \E header \in AdminHeaders, id \in UserIds : DeleteUser(header, id)
    \/ \E r \in inflight : DeleteUserComplaints(r)
    \/ \E header \in AdminHeaders, id \in 1..GateComplaints : DeleteComplaint(header, id)

SpecConcurrent == Init /\ [][NextConcurrent]_vars

\* the same, with a process that may exit in the middle of a request
NextCascade ==
    \/ NextConcurrent
    \/ Crash

SpecCascade == Init /\ [][NextCascade]_vars

----------------------------------------------------------------------------
(* Properties of the gates *)

AdminRoutes == {"listUsers", "listPendingUsers", "updateApproval", "deleteUser",
                "adminListComplaints", "updateStatus", "deleteComplaint"}

\* the token a header presents, as a set: empty when the header carries none
Presented(header) == IF Falsy(headerToken(header)) THEN {} ELSE {headerToken(header)[1]}

\* the accounts the subject of the token resolves to
Resolved(token) == {u \in users : IsObjectId(token._id) /\ u._id = token._id}

\* the tokens issued by employee login
EmployeeTokens == {t \in issued : IsObjectId(t._id)}

\* the tokens issued by admin login
AdminTokens == issued \ EmployeeTokens

IsEmployeeGateStep(step) == step.op \in EmployeeRoutes /\ step.phase = "gate"

\* C1: Employee Gate re-checks the approval status on every request: a request
\* that presents an issued, unexpired token of an account whose approvalStatus
\* is by now rejected or pending is answered 403 and is not handed to the
\* complaint operation; the token need not be issued anew for that.
C1_ApprovalRecheckedOnEveryRequest ==
    [][\A t \in EmployeeTokens :
         ( /\ IsEmployeeGateStep(last')
           /\ last'.req.header = Bearer(t)
           /\ now < t.exp
           /\ \E u \in users : u._id = t._id /\ u.approvalStatus \in {"rejected", "pending"} )
         => /\ last'.res.sent
            /\ last'.res.status = 403
            /\ inflight' = inflight
            /\ complaints' = complaints]_vars

C1_Witness ==
    /\ IsEmployeeGateStep(last)
    /\ last.res.sent
    /\ last.res.status = 403
    /\ \E t \in EmployeeTokens :
         /\ last.req.header = Bearer(t)
         /\ now < t.exp
         /\ \E u \in users : u._id = t._id /\ u.approvalStatus = "rejected"

\* the verdict of the Employee Gate as the claim C2 words it
C2_OriginalVerdict(step) ==
    LET tokens == Presented(step.req.header) IN
    IF tokens = {} \/ \E t \in tokens : ~jwtVerify(t, now)
    THEN step.res.sent /\ step.res.status = 401
    ELSE IF \E t \in tokens : \E u \in Resolved(t) : u.approvalStatus /= "approved"
    THEN step.res.sent /\ step.res.status = 403
    ELSE ~step.res.sent

\* C2 as claimed: 401 when the token is absent or fails verification, 403 when
\* it verifies and the resolved account is not approved, passed otherwise.
C2_Original == IsEmployeeGateStep(last) => C2_OriginalVerdict(last)

\* the verdict of the Employee Gate, with the subject that resolves to no account
C2_AmendedVerdict(step) ==
    LET tokens == Presented(step.req.header) IN
    IF \/ tokens = {}
       \/ \E t \in tokens : ~jwtVerify(t, now)
       \/ \E t \in tokens : Resolved(t) = {}
    THEN step.res.sent /\ step.res.status = 401
    ELSE IF \E t \in tokens : \E u \in Resolved(t) : u.approvalStatus /= "approved"
    THEN step.res.sent /\ step.res.status = 403
    ELSE /\ ~step.res.sent
         /\ \E t \in tokens : step.req.user = {selectWithoutPassword(u) : u \in Resolved(t)}

\* C2 (amended): an employee-gated request is answered 401 when the token is
\* absent, fails verification or has a subject that resolves to no stored
\* account, 403 when the resolved account is not approved, and is otherwise
\* passed on with the resolved account attached; a request is suspended at a
\* complaint operation, and a complaint operation runs, only after that pass.
C2_EmployeeGateVerdicts ==
    [][/\ IsEmployeeGateStep(last') =>
            /\ C2_AmendedVerdict(last')
            /\ IF last'.res.sent
               THEN inflight' = inflight
               ELSE inflight' = inflight \cup {[op |-> last'.op, user |-> last'.req.user]}
       /\ \A r \in inflight' \ inflight :
            r.op \in EmployeeRoutes => IsEmployeeGateStep(last') /\ ~last'.res.sent
       /\ (last'.op \in EmployeeRoutes /\ last'.phase = "handler") =>
            \E r \in inflight \ inflight' : r.op = last'.op /\ r.user = last'.req.user
       /\ IsEmployeeGateStep(last') => complaints' = complaints]_vars

C2_Witness ==
    /\ IsEmployeeGateStep(last)
    /\ last.res.sent
    /\ last.res.status = 401
    /\ \E t \in Presented(last.req.header) : jwtVerify(t, now) /\ Resolved(t) = {}

\* C3: an admin-gated request is answered 401 when the token is absent or fails
\* verification and 403 when it verifies with a role claim other than admin (so
\* for every unexpired token of employee login); the handler runs only for a
\* verified token whose role claim is admin.
C3_AdminGateVerdicts ==
    [][(last'.op \in AdminRoutes /\ last'.phase \in {"gate", "handler"}) =>
         LET tokens == Presented(last'.req.header) IN
         /\ (tokens = {} \/ \E t \in tokens : ~jwtVerify(t, now)) =>
               last'.phase = "gate" /\ last'.res.sent /\ last'.res.status = 401
         /\ (\E t \in tokens : jwtVerify(t, now) /\ t.role /= "admin") =>
               last'.phase = "gate" /\ last'.res.sent /\ last'.res.status = 403
         /\ (\E t \in tokens \cap EmployeeTokens : jwtVerify(t, now)) =>
               last'.phase = "gate" /\ last'.res.sent /\ last'.res.status = 403
         /\ last'.phase = "handler" =>
               \E t \in tokens : jwtVerify(t, now) /\ t.role = "admin"
         /\ last'.phase = "gate" =>
               /\ last'.res.sent
               /\ last'.res.status \in {401, 403}
               /\ UNCHANGED <<users, complaints, inflight>>]_vars

C3_Witness ==
    /\ last.op \in AdminRoutes
    /\ last.phase = "gate"
    /\ last.res.status = 403
    /\ \E t \in Presented(last.req.header) \cap EmployeeTokens : jwtVerify(t, now)

\* a request that one of the two gates answered with 401 or 403
IsRejectedStep(step) ==
    /\ step.op \in EmployeeRoutes \cup AdminRoutes
    /\ step.phase = "gate"
    /\ step.res.sent
    /\ step.res.status \in {401, 403}

\* C15: a request that the Employee Gate or the Admin Gate rejects with 401 or
\* 403 leaves the store as it was: the same accounts with the same fields, the
\* same complaints with the same fields.
C15_RejectedRequestsChangeNothing ==
    [][IsRejectedStep(last') => users' = users /\ complaints' = complaints]_vars

\* the Admin Gate has rejected the delete of a complaint with 403 while accounts
\* and complaints are stored
C15_Witness ==
    /\ IsRejectedStep(last)
    /\ last.op = "deleteComplaint"
    /\ last.res.status = 403
    /\ users /= {}
    /\ complaints /= {}

IsListComplaintsStep(step) == step.op = "listComplaints" /\ step.phase = "handler"

IsCreateComplaintStep(step) == step.op = "createComplaint" /\ step.phase = "handler"

IsRegisterCreateStep(step) == step.op = "register" /\ step.phase = "create"

\* the account of users' that continues the account u of users
Continues(u, v) == u._id = v._id

IsUpdateApprovalStep(step) == step.op = "updateApproval" /\ step.phase = "handler"

\* C11: an account is stored with approvalStatus pending whatever the register
\* request carries, and the approvalStatus of a stored account changes only in a
\* step of the update-approval operation whose request passed the Admin Gate;
\* register, login, admin login, the employee-gated operations and every
\* request a gate rejects leave the approvalStatus of every account as it was.
C11_ApprovalStatusFrame ==
    [][/\ \A v \in users' :
            (\A u \in users : ~Continues(u, v)) =>
               IsRegisterCreateStep(last') /\ v.approvalStatus = "pending"
       /\ \A u \in users, v \in users' :
            (Continues(u, v) /\ u.approvalStatus /= v.approvalStatus) =>
               /\ IsUpdateApprovalStep(last')
               /\ last'.req.id = u._id
               /\ v.approvalStatus = last'.req.body.approvalStatus
               /\ \E t \in Presented(last'.req.header) :
                    jwtVerify(t, now) /\ t.role = "admin"
       /\ ( \/ last'.op \in {"register", "login", "adminLogin"} \cup EmployeeRoutes
            \/ last'.phase = "gate" ) =>
            \A u \in users, v \in users' :
              Continues(u, v) => u.approvalStatus = v.approvalStatus]_vars

\* a register request that asked for approved has been stored as pending
C11_Witness ==
    /\ IsRegisterCreateStep(last)
    /\ last.res.status = 201
    /\ last.req.approvalStatus = "approved"
    /\ \E u \in users : u._id = last.res.body.user._id /\ u.approvalStatus = "pending"

\* the decision C23 gives the Admin Gate: a function of the presented token and
\* of the time, 0 standing for a pass
C23_Decision(tokens, t) ==
    IF tokens = {} THEN 401
    ELSE IF \E k \in tokens : k.sig /= "JWT_SECRET" \/ t >= k.exp THEN 401
    ELSE IF \E k \in tokens : k.role /= "admin" THEN 403
    ELSE 0

\* C23: in every reachable state, whatever the stores hold, the verdict of the
\* Admin Gate on a header is the decision that the presented token (signature,
\* expiry, role claim) and the time give by themselves, and so was the outcome
\* of the admin-gated request served last; an unexpired admin token passes the
\* gate in every state, accounts deleted or rejected or not.
C23_AdminGateIgnoresStore ==
    /\ \A header \in Headers :
         adminMiddleware(header).status = C23_Decision(Presented(header), now)
    /\ \A t \in AdminTokens : now < t.exp => adminMiddleware(Bearer(t)).status = 0
    /\ (last.op \in AdminRoutes /\ last.phase \in {"gate", "handler"}) =>
         LET decision == C23_Decision(Presented(last.req.header), now) IN
         IF last.phase = "handler" THEN decision = 0
         ELSE last.res.sent /\ last.res.status = decision

\* an admin token issued before an account was rejected, or deleted with none
\* left, has passed the Admin Gate afterwards
C23_Witness ==
    /\ last.op \in AdminRoutes
    /\ last.op /= "updateApproval"
    /\ last.op /= "deleteUser"
    /\ last.phase = "handler"
    /\ Presented(last.req.header) \subseteq AdminTokens
    /\ nextUserId > 1
    /\ \A u \in users : u.approvalStatus = "rejected"

\* C27: an admin token never passes the Employee Gate: in every reachable state
\* of the stores the gate's verdict on it is 401, every employee-gated request
\* that carried one was answered 401, and no request suspended at a complaint
\* operation was admitted as the admin.
C27_AdminTokenStopsAtEmployeeGate ==
    /\ \A t \in AdminTokens : authMiddleware(Bearer(t)).status = 401
    /\ (IsEmployeeGateStep(last) /\ Presented(last.req.header) \cap AdminTokens /= {}) =>
         last.res.sent /\ last.res.status = 401
    /\ \A r \in inflight :
         r.op \in EmployeeRoutes => \A u \in r.user : u._id /= AdminSubject /\ u.role /= "admin"

\* an unexpired admin token has been turned down by the Employee Gate while an
\* approved account is stored
C27_Witness ==
    /\ IsEmployeeGateStep(last)
    /\ last.res.sent
    /\ last.res.status = 401
    /\ \E t \in Presented(last.req.header) \cap AdminTokens : jwtVerify(t, now)
    /\ \E u \in users : u.approvalStatus = "approved"

\* C28: an employee-gated request that carries a token whose subject is the
\* identifier of no stored account is answered 401, also when an account with
\* the phone number (and so the e-mail) of the deleted one is stored and
\* approved; the identifier of a deleted account is never given to an account
\* again, so that this holds for all that is left of the token's validity.
C28_TokenOfDeletedAccountIsDead ==
    [][/\ IsEmployeeGateStep(last') =>
            \A t \in Presented(last'.req.header) \cap EmployeeTokens :
              Resolved(t) = {} =>
                /\ last'.res.sent
                /\ last'.res.status = 401
                /\ inflight' = inflight
       /\ \A t \in EmployeeTokens :
            Resolved(t) = {} => \A u \in users' : u._id /= t._id
       /\ \A u \in users' : u._id < nextUserId']_vars

\* the unexpired token of a deleted account has been turned down while a new,
\* approved account with the same phone number is stored
C28_Witness ==
    /\ IsEmployeeGateStep(last)
    /\ last.res = Failure(401, "User not found")
    /\ \E t \in Presented(last.req.header) \cap EmployeeTokens :
         /\ jwtVerify(t, now)
         /\ Resolved(t) = {}
         /\ \E u \in users :
              /\ u.email = t.email
              /\ u.employeeNumber = PhoneA
              /\ u.approvalStatus = "approved"

----------------------------------------------------------------------------
(* Properties of the account routes *)

IsLoginStep(step) == step.op = "login" /\ step.phase = "done"

\* the accounts a login request names
Named(body) == findOneByEmployeeNumber(body.email)

\* C4 as claimed: every login for a pending or rejected account is answered
\* 403 and issues no token.
C4_Original ==
    (IsLoginStep(last) /\ \E u \in Named(last.req) : u.approvalStatus \in {"pending", "rejected"})
    => last.res.status = 403 /\ tokensOf(last.res) = {}

\* C4 (amended): a login for a pending or rejected account issues no token and
\* fails, with 403 when the supplied password is correct (with 401 when it is
\* wrong, with 400 when it is missing); login issues a token only for an
\* account that exists, whose password matches and that is approved.
C4_NoSessionUnlessApproved ==
    IsLoginStep(last) =>
      /\ \A u \in Named(last.req) :
           u.approvalStatus \in {"pending", "rejected"} =>
             /\ tokensOf(last.res) = {}
             /\ last.res.status \in {400, 401, 403}
             /\ comparePassword(u, last.req.password) => last.res.status = 403
             /\ (~Falsy(last.req.password) /\ ~comparePassword(u, last.req.password))
                  => last.res.status = 401
      /\ \A t \in tokensOf(last.res) :
           \E u \in Named(last.req) :
             /\ comparePassword(u, last.req.password)
             /\ u.approvalStatus = "approved"
             /\ t = generateAuthToken(u, now)
             /\ t \in issued

C4_Witness ==
    /\ IsLoginStep(last)
    /\ last.res.status = 403
    /\ \E u \in Named(last.req) :
         u.approvalStatus = "rejected" /\ comparePassword(u, last.req.password)

C6_RegisterSucceedsOnce ==
    /\ (last.op = "register" /\ last.phase = "check"
          /\ findOneByEmployeeNumber(last.req.employeeNumber) /= {}) =>
         last.res.sent /\ last.res.status = 400
    /\ IsRegisterCreateStep(last) =>
         /\ last.res.status = 201
         /\ \E u \in users : /\ u._id = last.res.body.user._id
                             /\ u.employeeNumber = last.req.employeeNumber
                             /\ u.approvalStatus = "pending"
    /\ \A u \in users, v \in users : u.employeeNumber = v.employeeNumber => u = v

\* the account documents a response carries
DocumentsIn(res) ==
    IF ~res.sent THEN {}
    ELSE (IF "user" \in DOMAIN res.body THEN {res.body.user} ELSE {})
         \cup (IF "users" \in DOMAIN res.body THEN res.body.users ELSE {})

\* C9: no response carries the password field of an account.
C9_NoPasswordInResponses == \A doc \in DocumentsIn(last.res) : "password" \notin DOMAIN doc

\* C10: every stored account has role employee, whatever the register request
\* carried, and so has every token issued by employee login.
C10_RoleIsEmployee ==
    /\ \A u \in users : u.role = "employee"
    /\ \A t \in EmployeeTokens : t.role = "employee"
    /\ IsLoginStep(last) => \A t \in tokensOf(last.res) : t.role = "employee"

C10_Witness ==
    /\ IsLoginStep(last)
    /\ \E t \in tokensOf(last.res) :
         /\ t.role = "employee"
         /\ t.email = CustomEmail
         /\ \E u \in users : u._id = t._id /\ u.employeeNumber = PhoneA

IsRegisterCheckStep(step) == step.op = "register" /\ step.phase = "check"

\* the register requests that C18 names
C18_Refused(body) ==
    \/ Len(body.employeeNumber) /= 10
    \/ \E i \in 1..Len(body.employeeNumber) : body.employeeNumber[i] \notin Digits
    \/ Len(body.password) < 6
    \/ \E f \in {"name", "password", "employeeNumber", "department", "workLocation"} :
         body[f] = NoStr

\* C18: a register request whose identifier is not exactly 10 digits, whose
\* password has fewer than 6 characters, or that lacks name, password,
\* identifier, department or workLocation is answered 400, is not taken any
\* further and leaves the accounts as they were.
C18_InvalidRegisterIs400 ==
    [][(IsRegisterCheckStep(last') /\ C18_Refused(last'.req)) =>
         /\ last'.res.sent
         /\ last'.res.status = 400
         /\ inflight' = inflight
         /\ users' = users]_vars

\* an identifier of 11 digits has been refused while an account is stored
C18_Witness ==
    /\ IsRegisterCheckStep(last)
    /\ Len(last.req.employeeNumber) = 11
    /\ \A i \in 1..11 : last.req.employeeNumber[i] \in Digits
    /\ last.res = Failure(400, "Phone number must be exactly 10 digits")
    /\ users /= {}

\* C19: the password an account is stored with is the bcrypt hash of the
\* password its register request supplied, not that password itself, and the
\* supplied password verifies against it; no later step changes the stored
\* hash of an account, the approval update included, so that the password
\* supplied at registration still verifies.
C19_PasswordStoredHashed ==
    [][/\ IsRegisterCreateStep(last') =>
            \A v \in users' :
              (\A u \in users : ~Continues(u, v)) =>
                 /\ v.password /= last'.req.password
                 /\ \E salt \in Salts : v.password = bcryptHash(last'.req.password, salt)
                 /\ comparePassword(v, last'.req.password)
       /\ \A u \in users, v \in users' : Continues(u, v) => v.password = u.password
       /\ \A v \in users' :
            \E body \in AuthRegisterBodies :
              /\ body.employeeNumber = v.employeeNumber
              /\ v.password /= body.password
              /\ comparePassword(v, body.password)]_vars

\* an account whose approvalStatus the admin has updated has logged in with the
\* password supplied at registration
C19_Witness ==
    /\ IsLoginStep(last)
    /\ last.res.status = 200
    /\ \E u \in Named(last.req) :
         /\ u.approvalStatus = "approved"
         /\ u.password /= last.req.password
         /\ comparePassword(u, last.req.password)
         /\ u.password = bcryptHash(PasswordB, "salt2")

----------------------------------------------------------------------------
(* Properties of the complaint routes *)

IsCascadeStep(step) == step.op = "deleteUser" /\ step.phase = "cascade"

\* C7: the admin's delete of an existing account removes that account alone and
\* then every complaint whose employeeId is its identifier; when it completes no
\* such complaint is stored, and the complaints of other owners and the other
\* accounts are as they were.
C7_DeleteCascadesToOwnComplaints ==
    [][/\ (last'.op = "deleteUser" /\ last'.phase = "handler" /\ ~last'.res.sent) =>
            /\ \E a \in users : a._id = last'.req.id /\ users' = users \ {a}
            /\ complaints' = complaints
       /\ IsCascadeStep(last') =>
            /\ \A c \in complaints' : c.employeeId /= last'.req.id
            /\ \A c \in complaints : c.employeeId /= last'.req.id => c \in complaints'
            /\ complaints' \subseteq complaints
            /\ users' = users]_vars

C7_Witness ==
    /\ IsCascadeStep(last)
    /\ last.res.status = 200
    /\ last.req.deletedCount >= 1
    /\ \E c \in complaints : c.employeeId /= last.req.id
    /\ users /= {}

IsUpdateStatusStep(step) == step.op = "updateStatus" /\ step.phase = "handler"

\* C8: for an existing complaint in any status, setStatus with pending, received
\* or resolved is answered 200 and leaves the complaint with exactly that status;
\* any other value is answered 400 'Invalid status' and changes nothing.
C8_AnyStatusFromAnyStatus ==
    [][IsUpdateStatusStep(last') =>
         \A c \in complaints :
           c._id = last'.req.id =>
             IF last'.req.body.status \in {"pending", "received", "resolved"}
             THEN /\ last'.res.status = 200
                  /\ last'.res.body.complaint = [c EXCEPT !.status = last'.req.body.status]
                  /\ complaints' =
                       (complaints \ {c}) \cup {[c EXCEPT !.status = last'.req.body.status]}
             ELSE /\ last'.res = Failure(400, "Invalid status")
                  /\ complaints' = complaints]_vars

\* a complaint stored as resolved by its creator (priority left to the default)
\* that an update has moved back to pending
C8_Witness ==
    /\ IsUpdateStatusStep(last)
    /\ last.res.status = 200
    /\ last.req.body.status = "pending"
    /\ \E c \in complaints :
         c._id = last.req.id /\ c.status = "pending" /\ c.priority = "medium"

\* the complaints of complaints' that complaints does not hold
Created == {c \in complaints' : \A d \in complaints : d._id /= c._id}

\* C12: every complaint the employee-gated create operation stores has status
\* pending, whatever the request carries, and the status of a stored complaint
\* changes only in a step of the admin-gated setStatus operation.
C12_CreatedPendingAndAdminOnly ==
    [][/\ IsCreateComplaintStep(last') =>
            \A c \in Created : c.status = "pending"
       /\ \A c \in complaints, d \in complaints' :
            (c._id = d._id /\ c.status /= d.status) => IsUpdateStatusStep(last')]_vars

\* C13: every complaint the employee-gated create operation stores has the
\* identifier of the approved account the Employee Gate resolved for the
\* request as its employeeId.
C13_OwnedByResolvedAccount ==
    (IsCreateComplaintStep(last) /\ last.res.status = 201) =>
      \E u \in last.req.user :
        /\ u.approvalStatus = "approved"
        /\ last.res.body.complaint.employeeId = u._id

\* C14: a create-complaint request of an approved employee without category or
\* without message is answered 400 and stores no complaint.
C14_MissingFieldIs400 ==
    [][( /\ IsCreateComplaintStep(last')
         /\ \/ last'.req.body.category = Undefined
            \/ last'.req.body.message = Undefined )
       => /\ last'.res.status = 400
          /\ complaints' = complaints]_vars

IsDeleteComplaintStep(step) == step.op = "deleteComplaint" /\ step.phase = "handler"

C29_EnumsHoldInStore ==
    /\ \A c \in complaints :
         /\ c.status \in {"pending", "received", "resolved"}
         /\ c.priority \in {"low", "medium", "high"}
    /\ \A u \in users : u.approvalStatus \in {"pending", "approved", "rejected"}

\* a create with a priority outside the enum has been refused while complaints
\* are stored
C29_Witness ==
    /\ IsCreateComplaintStep(last)
    /\ last.req.body.priority = "urgent"
    /\ last.res.status = 500
    /\ complaints /= {}

----------------------------------------------------------------------------
(* The scenario of the employee and the admin *)

\* the list the page of the employee shows after the list step `step`
OwnList(step) ==
    UNION {fetchComplaints(step.res.body.array, u) : u \in step.req.user}

\* C24: the steps of the scenario have the outcomes it names.  A register of
\* a 10-digit phone number with a password of 6 or more characters stores a
\* pending account; a login with the right password is answered 403 without a
\* token while the account is pending and 200 with a token once it is
\* approved; a create with category, priority high and message stores the
\* complaint as pending; the employee's own list shows the complaints of that
\* employee with the status they are stored with, so resolved once the admin
\* has set it.
C24_ScenarioSteps ==
    [][/\ (IsRegisterCreateStep(last') /\ last'.res.status = 201) =>
            \E u \in users' \ users :
              u.employeeNumber = last'.req.employeeNumber /\ u.approvalStatus = "pending"
       /\ IsLoginStep(last') =>
            \A u \in Named(last'.req) :
              comparePassword(u, last'.req.password) =>
                /\ u.approvalStatus = "pending" =>
                     last'.res.status = 403 /\ tokensOf(last'.res) = {}
                /\ u.approvalStatus = "approved" =>
                     last'.res.status = 200 /\ tokensOf(last'.res) /= {}
       /\ ( /\ IsCreateComplaintStep(last')
            /\ last'.req.body.category /= Undefined
            /\ last'.req.body.message /= Undefined
            /\ last'.req.body.priority = "high"
            /\ last'.req.body.status = Undefined ) =>
            /\ last'.res.status = 201
            /\ \E c \in complaints' \ complaints :
                 /\ c = last'.res.body.complaint
                 /\ c.status = "pending"
                 /\ c.priority = "high"
                 /\ c.category = last'.req.body.category
                 /\ c.employeeId = last'.req.body.employeeId
       /\ IsListComplaintsStep(last') =>
            OwnList(last') =
              {c \in complaints : \E u \in last'.req.user : c.employeeId = u._id}
       /\ ( /\ IsUpdateStatusStep(last')
            /\ last'.res.status = 200
            /\ last'.req.body.status = "resolved" ) =>
            \E c \in complaints' : c._id = last'.req.id /\ c.status = "resolved"]_vars

\* the end of the scenario: the own list of the employee of phone 9876543210
\* shows the complaint of category PF and priority high as resolved
C24_Witness ==
    /\ IsListComplaintsStep(last)
    /\ \E u \in last.req.user :
         /\ u.employeeNumber = PhoneA
         /\ \E c \in OwnList(last) :
              /\ c.employeeId = u._id
              /\ c.category = "PF"
              /\ c.priority = "high"
              /\ c.status = "resolved"

----------------------------------------------------------------------------
(* Properties of the tokens *)

IsAdminLoginStep(step) == step.op = "adminLogin" /\ step.phase = "done"

HasAdminCredentials(body) ==
    body.username = ADMIN_USERNAME /\ body.password = ADMIN_PASSWORD

\* C17 as claimed: admin login issues the admin token when the credentials are
\* the configured pair, and answers every other attempt with 401 and no token.
C17_Original ==
    IsAdminLoginStep(last) =>
      IF HasAdminCredentials(last.req)
      THEN last.res.status = 200 /\ tokensOf(last.res) /= {}
      ELSE last.res.status = 401 /\ tokensOf(last.res) = {}

\* C17 (amended): admin login issues an admin token (subject 'admin', role
\* admin, expiry 24 hours on) if and only if username and password both equal
\* the configured pair; every other attempt issues no token and fails, with 400
\* when the username or the password is missing and with 401 otherwise; the
\* response depends on the request and the clock alone and the stores are left
\* as they were.
C17_AdminLoginIffCredentials ==
    [][IsAdminLoginStep(last') =>
         /\ users' = users
         /\ complaints' = complaints
         /\ IF HasAdminCredentials(last'.req)
            THEN /\ last'.res.status = 200
                 /\ tokensOf(last'.res) =
                      {[_id |-> AdminSubject, email |-> <<"admin@system.com">>,
                        role |-> "admin", exp |-> now + 24, sig |-> "JWT_SECRET"]}
                 /\ issued' = issued \cup tokensOf(last'.res)
            ELSE /\ tokensOf(last'.res) = {}
                 /\ issued' = issued
                 /\ last'.res.status =
                      IF Falsy(last'.req.username) \/ Falsy(last'.req.password)
                      THEN 400 ELSE 401]_vars

\* an attempt with the admin's username and another password has been turned
\* down while accounts are stored and an admin token is out
C17_Witness ==
    /\ IsAdminLoginStep(last)
    /\ last.req.username = ADMIN_USERNAME
    /\ ~HasAdminCredentials(last.req)
    /\ last.res.status = 401
    /\ users /= {}
    /\ AdminTokens /= {}

----------------------------------------------------------------------------
(* Properties of concurrent requests *)

\* a complaint whose employeeId is the identifier of no stored account
Orphan(c) == \A u \in users : u._id /= c.employeeId

\* the delete-account requests suspended before their deleteMany
CascadesPending == {r.userId : r \in Suspended("deleteUser")}

\* C22: the delete of an account takes two steps: the first removes the account,
\* leaves its complaints stored and sends no response; the second, which runs
\* only as the continuation of the first, removes the complaints.  A
\* list-complaints request served in between is answered with whatever is
\* stored.  When the process exits in between, the second step never runs: the
\* complaints of the removed account stay stored, and from then on only the
\* admin's delete of a complaint itself removes one of them.
C22_CascadeIsTwoSteps ==
    [][/\ (last'.op = "deleteUser" /\ last'.phase = "handler") =>
            \A a \in users :
              a._id = last'.req.id =>
                /\ ~last'.res.sent
                /\ users' = users \ {a}
                /\ complaints' = complaints
                /\ a._id \in {r.userId : r \in {x \in inflight' : x.op = "deleteUser"}}
       /\ IsCascadeStep(last') => last'.req.id \in CascadesPending
       /\ IsListComplaintsStep(last') => last'.res.body.array = complaints
       /\ last'.op = "process" =>
            /\ inflight' = {}
            /\ users' = users
            /\ complaints' = complaints
       /\ \A c \in complaints :
            (Orphan(c) /\ c.employeeId \notin CascadesPending) =>
               \/ c \in complaints'
               \/ IsDeleteComplaintStep(last') /\ last'.req.id = c._id]_vars

\* a list-complaints request served between the two steps has been answered
\* with a complaint of the account that is gone
C22_Witness ==
    /\ IsListComplaintsStep(last)
    /\ \E c \in last.res.body.array :
         /\ Orphan(c)
         /\ c.employeeId \in CascadesPending

\* C25: however register requests interleave, also when two requests for one
\* phone number (or with one e-mail) have both passed the existence check
\* before either inserts, no two stored accounts share a phone number or an
\* e-mail: the insert of a request whose phone number or e-mail is stored by
\* then is refused, stores nothing and is not answered 201, so that at most
\* one of the racing requests is.
C25_UniqueUnderRaces ==
    [][/\ \A u \in users', v \in users' :
            (u.employeeNumber = v.employeeNumber \/ u.email = v.email) => u = v
       /\ IsRegisterCreateStep(last') =>
            IF \E u \in users : \/ u.employeeNumber = last'.req.employeeNumber
                                \/ u.email = generatedEmail(last'.req)
            THEN last'.res.status /= 201 /\ users' = users
            ELSE last'.res.status = 201 /\ Cardinality(users') = Cardinality(users) + 1]_vars

\* of two requests for one phone number that had both passed the existence
\* check, the second to insert has been refused
C25_Witness ==
    /\ IsRegisterCreateStep(last)
    /\ last.res.status /= 201
    /\ \E u \in users :
         /\ u.employeeNumber = last.req.employeeNumber
         /\ u.name /= last.req.name
         /\ u.email /= generatedEmail(last.req)

\* the accounts that were stored once and are stored no more
DeletedIds == {id \in 1..(nextUserId - 1) : \A u \in users : u._id /= id}

\* C26: when the admin's delete of an account has completed and no request is
\* in progress, no stored complaint has the identifier of a deleted account as
\* its employeeId.
C26_NoComplaintOfDeletedAccount ==
    inflight = {} => \A c \in complaints : c.employeeId \notin DeletedIds

====
